---- MODULE Spec2Model ----
(***************************************************************************)
(* Model of chapter_computer-vision/semantic-segmentation-and-dataset:     *)
(* the colormap2label table, voc_label_indices, voc_rand_crop and the      *)
(* VOCSegDataset class.                                                    *)
(*                                                                         *)
(* An image is a record [ok, err, h, w, pix]; pix maps <<row, col>> to a   *)
(* pixel [pos, rgb].  pos = <<k, row, col>> is a marker naming the example *)
(* k and the position the pixel was read at; it rides along with the data  *)
(* so that the provenance of every cropped pixel can be read off.          *)
(* The mxnet.image / mxnet.nd routines the notebook calls are modelled at  *)
(* their call sites.                                                       *)
(***************************************************************************)
EXTENDS Integers, Sequences, FiniteSets, TLC

\* ---------------------------------------------------------------- bounds
MaxDim == 2
MaxPairs == 2
MaxCrop == 2

\* ------------------------------------------------------------- constants
VOC_COLORMAP ==
  << <<0, 0, 0>>, <<128, 0, 0>>, <<0, 128, 0>>, <<128, 128, 0>>,
     <<0, 0, 128>>, <<128, 0, 128>>, <<0, 128, 128>>, <<128, 128, 128>>,
     <<64, 0, 0>>, <<192, 0, 0>>, <<64, 128, 0>>, <<192, 128, 0>>,
     <<64, 0, 128>>, <<192, 0, 128>>, <<64, 128, 128>>, <<192, 128, 128>>,
     <<0, 64, 0>>, <<128, 64, 0>>, <<0, 192, 0>>, <<128, 192, 0>>,
     <<0, 64, 128>> >>

\* nd.zeros(256 ** 3): the number of entries and the value they start with.
TableSize == 16777216
ZerosFill == 0

\* Largest value of the 'int32' dtype voc_label_indices converts to.
Int32Max == 2147483647

\* rgb_mean and rgb_std of VOCSegDataset, in thousandths.
rgb_mean == <<485, 456, 406>>
rgb_std == <<229, 224, 225>>

\* Colours found in label files that are not palette colours (the border
\* colour of the VOC labels, white, and a colour one step off background).
OtherColours == << <<224, 224, 192>>, <<255, 255, 255>>, <<0, 0, 1>> >>

FileColours == VOC_COLORMAP \o OtherColours

\* ------------------------------------------------------------ variables
VARIABLES
  features,        \* list returned by read_voc_images (feature images)
  labels,          \* list returned by read_voc_images (label images)
  colormap2label,  \* the lookup table [fill, at]
  i,               \* position of the table-building loop; -1 before nd.zeros
  self,            \* the VOCSegDataset instance
  result           \* outcome of the last call

vars == <<features, labels, colormap2label, i, self, result>>

\* --------------------------------------------------------------- images
Grid(h, w) == (0 .. h - 1) \X (0 .. w - 1)

NoImage == [ok |-> FALSE, err |-> "none", h |-> 0, w |-> 0, pix |-> <<>>]

Raised(kind) == [ok |-> FALSE, err |-> kind, h |-> 0, w |-> 0, pix |-> <<>>]

\* image.imread of the k-th JPEG: an h x w image of 8-bit values.
FeatureFile(k, h, w) ==
  [ok |-> TRUE, err |-> "", h |-> h, w |-> w,
   pix |-> [p \in Grid(h, w) |->
              LET m == (64 * k + 16 * p[1] + 4 * p[2]) % 256
              IN [pos |-> <<k, p[1], p[2]>>,
                  rgb |-> <<m, (m + 85) % 256, (m + 170) % 256>>]]]

\* image.imread of the k-th PNG: pixel (r, c) has colour number
\* fill + r * w + c of FileColours.
LabelFile(k, h, w, fill) ==
  [ok |-> TRUE, err |-> "", h |-> h, w |-> w,
   pix |-> [p \in Grid(h, w) |->
              [pos |-> <<k, p[1], p[2]>>,
               rgb |-> FileColours[((fill + p[1] * w + p[2]) % Len(FileColours)) + 1]]]]

\* Heights and widths of the files: the two sizes up to MaxDim.
Dims == {d \in MaxDim - 1 .. MaxDim : d >= 1}

\* Sizes a label file may have next to an h x w feature file: the same size
\* (what the data set promises) or one row less.
LabelShapes(h, w) == {<<h, w>>} \cup {s \in {<<h - 1, w>>} : s[1] \in Dims}

\* Colour offset of the k-th label file of a split.
FillOf(k) == (19 * k) % Len(FileColours)

\* <<h, w, label h, label w>> of one example.
PairShapes ==
  {q \in Dims \X Dims \X Dims \X Dims : <<q[3], q[4]>> \in LabelShapes(q[1], q[2])}

\* The splits a data set may find on disk: up to MaxPairs examples, each
\* <<h, w, label h, label w, fill>>.
Splits ==
  UNION {{[k \in 1 .. n |-> q[k] \o <<FillOf(k - 1)>>] : q \in [1 .. n -> PairShapes]} :
           n \in 0 .. MaxPairs}

\* The first example of a split, with any colours in its label.
FirstExamples ==
  {<<q \o <<fill>>>> : q \in PairShapes, fill \in 0 .. Len(FileColours) - 1}

\* read_voc_images: features[i] and labels[i] are read from the i-th name.
read_voc_images(split) ==
  [features |-> [k \in 1 .. Len(split) |-> FeatureFile(k - 1, split[k][1], split[k][2])],
   labels |-> [k \in 1 .. Len(split) |->
                 LabelFile(k - 1, split[k][3], split[k][4], split[k][5])]]

\* ------------------------------------------------------ colormap2label
\* A table that starts from ones instead of zeros.
nd_ones == [fill |-> 1, at |-> <<>>]

\* nd.zeros(256 ** 3): every entry holds ZerosFill; 'at' lists the entries
\* assigned since.
nd_zeros == [fill |-> ZerosFill, at |-> <<>>]

\* The key with the channels taken in the order b, g, r.
PackKeyBGR(rgb) == (rgb[3] * 256 + rgb[2]) * 256 + rgb[1]

\* (r * 256 + g) * 256 + b on Python integers.
PackKey(rgb) == (rgb[1] * 256 + rgb[2]) * 256 + rgb[3]

\* colormap2label[key] = value
SetItem(table, key, value) == [table EXCEPT !.at = (key :> value) @@ @]

\* colormap2label[key]
GetItem(table, key) == IF key \in DOMAIN table.at THEN table.at[key] ELSE table.fill

\* Arithmetic of dtype int32: values past Int32Max wrap to negative ones.
Int32(x) == IF x > Int32Max THEN (x - Int32Max) - Int32Max - 2 ELSE x

\* The per-pixel index computed on the 8-bit values as read, without the
\* conversion to int32: every step wraps at 256.
PixelIndexUint8(rgb) ==
  (((((((rgb[1] * 256) % 256) + rgb[2]) % 256) * 256) % 256) + rgb[3]) % 256

\* The per-pixel index of voc_label_indices, on int32 values.
PixelIndex(rgb) == Int32(Int32(Int32(Int32(rgb[1] * 256) + rgb[2]) * 256) + rgb[3])

\* voc_label_indices(colormap, colormap2label): the H x W class map.
voc_label_indices(colormap, table) ==
  [ok |-> colormap.ok, err |-> colormap.err, h |-> colormap.h, w |-> colormap.w,
   idx |-> [p \in DOMAIN colormap.pix |-> GetItem(table, PixelIndex(colormap.pix[p].rgb))]]

NoMap == [ok |-> FALSE, err |-> "none", h |-> 0, w |-> 0, idx |-> <<>>]

\* ----------------------------------------------------------- mxnet.image
\* What nd.slice does with an end past the array depends on the mxnet build:
\* "check" rejects it, "clip" cuts it to the array.
SliceBuilds == {"check", "clip"}

\* nd.slice(src, begin=(y0, x0, 0), end=(y1, x1, 3)) as the build 'how' does
\* it; an empty slice is an error in every build.
SliceAs(src, y0, x0, y1, x1, how) ==
  LET ey == IF how = "clip" /\ y1 > src.h THEN src.h ELSE y1
      ex == IF how = "clip" /\ x1 > src.w THEN src.w ELSE x1
  IN IF ~src.ok THEN src
     ELSE IF ey > src.h \/ ex > src.w \/ ey <= y0 \/ ex <= x0 THEN Raised("MXNetError")
     ELSE [ok |-> TRUE, err |-> "", h |-> ey - y0, w |-> ex - x0,
           pix |-> [p \in Grid(ey - y0, ex - x0) |-> src.pix[<<y0 + p[1], x0 + p[2]>>]]]

\* nd.slice(src, begin=(y0, x0, 0), end=(y1, x1, 3)): the outcomes the builds
\* of mxnet can produce.
nd_slice(src, y0, x0, y1, x1) == {SliceAs(src, y0, x0, y1, x1, how) : how \in SliceBuilds}

\* image.imresize(src, w, h): an h x w image; each output pixel is taken
\* from the source pixel its position scales to.
imresize(src, w, h) ==
  IF ~src.ok THEN src
  ELSE [ok |-> TRUE, err |-> "", h |-> h, w |-> w,
        pix |-> [p \in Grid(h, w) |-> src.pix[<<(p[1] * src.h) \div h, (p[2] * src.w) \div w>>]]]

\* image.scale_down(src_size, size), both <<w, h>>: shrink size to fit,
\* keeping its aspect ratio; the result is truncated to integers at the end.
scale_down(src_size, size) ==
  LET sw == src_size[1]
      sh == src_size[2]
      w == size[1]
      h == size[2]
      num == IF sh < h THEN w * sh ELSE w
      den == IF sh < h THEN h ELSE 1
      h1 == IF sh < h THEN sh ELSE h
  IN IF sw * den < num THEN <<sw, (h1 * sw * den) \div num>> ELSE <<num \div den, h1>>

\* image.fixed_crop(src, x0, y0, w, h, size): size = <<>> stands for None.
fixed_crop(src, x0, y0, w, h, size) ==
  {IF size # <<>> /\ <<w, h>> # size THEN imresize(out, size[1], size[2]) ELSE out :
     out \in nd_slice(src, y0, x0, y0 + h, x0 + w)}

\* The rectangles <<x0, y0, new_w, new_h>> image.random_crop may draw.
CropRects(src, size) ==
  LET new == scale_down(<<src.w, src.h>>, size)
  IN {<<x0, y0, new[1], new[2]>> : x0 \in 0 .. src.w - new[1], y0 \in 0 .. src.h - new[2]}

\* image.random_crop(src, size) when the rectangle drawn is rect.
random_crop(src, size, rect) ==
  fixed_crop(src, rect[1], rect[2], rect[3], rect[4], size)

\* The rectangles drawn when the size is handed over as (height, width).
voc_rand_crop_rects_hw(feature, height, width) == CropRects(feature, <<height, width>>)

\* The rectangles random_crop may draw inside voc_rand_crop(feature, label,
\* height, width): it is handed the size as (width, height).
voc_rand_crop_rects(feature, height, width) == CropRects(feature, <<width, height>>)

\* A cropper that crops the label at its own offset, the top-left corner.
voc_rand_crop_own_offset(feature, label, height, width, rect) ==
  {[feature |-> f, label |-> l] :
     f \in random_crop(feature, <<width, height>>, rect),
     l \in fixed_crop(label, 0, 0, rect[3], rect[4], <<>>)}

\* voc_rand_crop(feature, label, height, width) when random_crop draws rect:
\* the pairs it may return.
voc_rand_crop(feature, label, height, width, rect) ==
  {[feature |-> f, label |-> l] :
     f \in random_crop(feature, <<width, height>>, rect),
     l \in fixed_crop(label, rect[1], rect[2], rect[3], rect[4], <<>>)}

\* --------------------------------------------------------- VOCSegDataset
\* One channel of (img.astype('float32') / 255 - rgb_mean) / rgb_std, in
\* thousandths.
NormalizeValue(v, c) == (((v * 1000) \div 255 - rgb_mean[c]) * 1000) \div rgb_std[c]

\* VOCSegDataset.normalize_image
normalize_image(img) ==
  [img EXCEPT !.pix = [p \in DOMAIN img.pix |->
     [pos |-> img.pix[p].pos,
      rgb |-> [c \in 1 .. 3 |-> NormalizeValue(img.pix[p].rgb[c], c)]]]]

\* A filter test that also drops images of exactly the crop size.
FilterKeepsStrict(img, crop_size) == img.h > crop_size[1] /\ img.w > crop_size[2]

\* The test of VOCSegDataset.filter: shape[0] is the height, shape[1] the width.
FilterKeeps(img, crop_size) == img.h >= crop_size[1] /\ img.w >= crop_size[2]

\* VOCSegDataset.filter
filter(imgs, crop_size) == SelectSeq(imgs, LAMBDA img : FilterKeeps(img, crop_size))

NoDataset ==
  [built |-> FALSE, crop_size |-> <<0, 0>>, features |-> <<>>, labels |-> <<>>,
   colormap2label |-> nd_zeros, printed |-> -1]

\* VOCSegDataset.__init__ on the lists read_voc_images returned.
NewDataset(crop_size, read, table) ==
  LET fs == [k \in 1 .. Len(filter(read.features, crop_size)) |->
               normalize_image(filter(read.features, crop_size)[k])]
  IN [built |-> TRUE, crop_size |-> crop_size, features |-> fs,
      labels |-> filter(read.labels, crop_size), colormap2label |-> table,
      printed |-> Len(fs)]

\* An index operation that clamps idx into the list instead of raising.
list_getitem_clamped(list, idx) ==
  IF Len(list) = 0 THEN [ok |-> FALSE, item |-> NoImage]
  ELSE IF idx >= Len(list) THEN [ok |-> TRUE, item |-> list[Len(list)]]
  ELSE IF idx < 0 THEN [ok |-> TRUE, item |-> list[1]]
  ELSE [ok |-> TRUE, item |-> list[idx + 1]]

\* self.features[idx], self.labels[idx]: Python's list[idx] counts a negative
\* idx from the end and raises IndexError outside -len <= idx < len.
list_getitem(list, idx) ==
  IF 0 <= idx /\ idx < Len(list) THEN [ok |-> TRUE, item |-> list[idx + 1]]
  ELSE IF -Len(list) <= idx /\ idx < 0 THEN [ok |-> TRUE, item |-> list[Len(list) + idx + 1]]
  ELSE [ok |-> FALSE, item |-> NoImage]

\* feature.transpose((2, 0, 1)): H x W x 3 to 3 x H x W.
transpose(img) ==
  [shape |-> <<3, img.h, img.w>>,
   at |-> [q \in (0 .. 2) \X (0 .. img.h - 1) \X (0 .. img.w - 1) |->
             img.pix[<<q[2], q[3]>>].rgb[q[1] + 1]]]

NoTensor == [shape |-> <<>>, at |-> <<>>]

NoResult ==
  [op |-> "none", idx |-> 0, size |-> <<>>, kind |-> "none", value |-> 0, rect |-> <<>>,
   feature |-> NoImage, label |-> NoImage, X |-> NoTensor, Y |-> NoMap]

\* VOCSegDataset.__getitem__(idx) when random_crop draws rect: the outcomes
\* it may have.
getitem(ds, idx, rect) ==
  IF ~list_getitem(ds.features, idx).ok \/ ~list_getitem(ds.labels, idx).ok
  THEN {[NoResult EXCEPT !.op = "getitem", !.idx = idx, !.size = ds.crop_size,
           !.kind = "IndexError"]}
  ELSE {[NoResult EXCEPT !.op = "getitem", !.idx = idx, !.size = ds.crop_size,
           !.kind = IF crop.feature.ok /\ crop.label.ok THEN "ok" ELSE "MXNetError",
           !.rect = rect, !.feature = crop.feature, !.label = crop.label,
           !.X = IF crop.feature.ok /\ crop.label.ok
                 THEN transpose(crop.feature) ELSE NoTensor,
           !.Y = IF crop.feature.ok /\ crop.label.ok
                 THEN voc_label_indices(crop.label, ds.colormap2label) ELSE NoMap] :
          crop \in voc_rand_crop(list_getitem(ds.features, idx).item,
                                 list_getitem(ds.labels, idx).item,
                                 ds.crop_size[1], ds.crop_size[2], rect)}

\* ------------------------------------------------------------- actions
TableBuilt == i = Len(VOC_COLORMAP)

\* colormap2label = nd.zeros(256 ** 3)
ZerosTable ==
  /\ i = -1
  /\ colormap2label' = nd_zeros
  /\ i' = 0
  /\ UNCHANGED <<features, labels, self, result>>

\* One pass of: for i, colormap in enumerate(VOC_COLORMAP)
ColormapStep ==
  /\ i >= 0 /\ i < Len(VOC_COLORMAP)
  /\ colormap2label' = SetItem(colormap2label, PackKey(VOC_COLORMAP[i + 1]), i)
  /\ i' = i + 1
  /\ UNCHANGED <<features, labels, self, result>>

\* train_features, train_labels = read_voc_images()
ReadCell ==
  /\ i = -1 /\ features = <<>>
  /\ \E split \in FirstExamples :
       /\ features' = read_voc_images(split).features
       /\ labels' = read_voc_images(split).labels
  /\ UNCHANGED <<colormap2label, i, self, result>>

\* y = voc_label_indices(train_labels[0], colormap2label)
LabelIndicesCell ==
  /\ TableBuilt /\ labels # <<>> /\ ~self.built
  /\ result' = [NoResult EXCEPT !.op = "voc_label_indices", !.kind = "ok",
                  !.label = labels[1], !.Y = voc_label_indices(labels[1], colormap2label)]
  /\ UNCHANGED <<features, labels, colormap2label, i, self>>

\* voc_rand_crop(train_features[0], train_labels[0], height, width)
RandCropCell ==
  /\ TableBuilt /\ features # <<>> /\ ~self.built
  /\ \E height \in 1 .. MaxCrop, width \in 1 .. MaxCrop :
       \E rect \in voc_rand_crop_rects(features[1], height, width) :
         \E crop \in voc_rand_crop(features[1], labels[1], height, width, rect) :
            result' = [NoResult EXCEPT !.op = "voc_rand_crop", !.size = <<height, width>>,
                         !.kind = IF crop.feature.ok /\ crop.label.ok THEN "ok" ELSE "MXNetError",
                         !.rect = rect, !.feature = crop.feature, !.label = crop.label]
  /\ UNCHANGED <<features, labels, colormap2label, i, self>>

\* voc_train = VOCSegDataset(is_train, crop_size, voc_dir, colormap2label)
Construct ==
  /\ TableBuilt /\ ~self.built /\ features = <<>>
  /\ \E split \in Splits, height \in 1 .. MaxCrop, width \in 1 .. MaxCrop :
       /\ features' = read_voc_images(split).features
       /\ labels' = read_voc_images(split).labels
       /\ self' = NewDataset(<<height, width>>, read_voc_images(split), colormap2label)
  /\ result' = NoResult
  /\ UNCHANGED <<colormap2label, i>>

\* voc_train[idx]
GetItemCall ==
  /\ self.built
  /\ \E idx \in -(MaxPairs + 1) .. MaxPairs :
       IF ~list_getitem(self.features, idx).ok
       THEN result' \in getitem(self, idx, <<>>)
       ELSE \E rect \in voc_rand_crop_rects(list_getitem(self.features, idx).item,
                                            self.crop_size[1], self.crop_size[2]) :
              result' \in getitem(self, idx, rect)
  /\ UNCHANGED <<features, labels, colormap2label, i, self>>

\* len(voc_train)
LenCall ==
  /\ self.built
  /\ result' = [NoResult EXCEPT !.op = "len", !.kind = "ok", !.value = Len(self.features)]
  /\ UNCHANGED <<features, labels, colormap2label, i, self>>

Init ==
  /\ features = <<>>
  /\ labels = <<>>
  /\ colormap2label = nd_zeros
  /\ i = -1
  /\ self = NoDataset
  /\ result = NoResult

\* The data set: the table is built, a VOCSegDataset is constructed and used.
Next == ZerosTable \/ ColormapStep \/ Construct \/ GetItemCall \/ LenCall

Spec == Init /\ [][Next]_vars

\* The cells that work on the first training example.
NextCells == ReadCell \/ ZerosTable \/ ColormapStep \/ LabelIndicesCell \/ RandCropCell

SpecCells == Init /\ [][NextCells]_vars

\* ---------------------------------------------------------------- claims
\* The key of a colour as the data model writes it: r * 256^2 + g * 256 + b.
ClaimKey(rgb) == rgb[1] * 65536 + rgb[2] * 256 + rgb[3]

PaletteColours == {VOC_COLORMAP[n] : n \in 1 .. Len(VOC_COLORMAP)}

\* The class a palette colour stands for: its position in VOC_COLORMAP.
ClassOf(rgb) == (CHOOSE n \in 1 .. Len(VOC_COLORMAP) : VOC_COLORMAP[n] = rgb) - 1

\* The example a retained image was read from.
ExampleOf(img) == img.pix[<<0, 0>>].pos[1]

\* The feature file get(idx) crops, once the index is accepted.
Served == list_getitem(self.features, result.idx).item

\* The cell cropped a pair of one size with a crop that fits inside it.
CropCellFits ==
  /\ result.op = "voc_rand_crop"
  /\ features[1].h = labels[1].h /\ features[1].w = labels[1].w
  /\ result.size[1] <= features[1].h /\ result.size[2] <= features[1].w

\* C1: voc_rand_crop on a feature and a label of one size, with a crop size
\* that fits, returns two crops of the crop size whose pixel (r, c) was read
\* at (y + r, x + c) of the feature and of the label, (x, y) being the one
\* offset random_crop drew.
C1_CropAlignment ==
  CropCellFits =>
    /\ result.kind = "ok"
    /\ result.feature.h = result.size[1] /\ result.feature.w = result.size[2]
    /\ result.label.h = result.size[1] /\ result.label.w = result.size[2]
    /\ \A p \in Grid(result.size[1], result.size[2]) :
         /\ result.feature.pix[p].pos = <<0, result.rect[2] + p[1], result.rect[1] + p[2]>>
         /\ result.label.pix[p].pos = <<0, result.rect[2] + p[1], result.rect[1] + p[2]>>
         /\ result.feature.pix[p] = features[1].pix[<<result.rect[2] + p[1], result.rect[1] + p[2]>>]
         /\ result.label.pix[p] = labels[1].pix[<<result.rect[2] + p[1], result.rect[1] + p[2]>>]

\* A crop that fits was taken away from the top-left corner.
C1_Witness ==
  /\ CropCellFits
  /\ result.kind = "ok"
  /\ result.rect[1] > 0 /\ result.rect[2] > 0

\* The number of examples read whose feature image is at least the crop size.
KeptCount ==
  Cardinality({k \in 1 .. Len(features) :
                 features[k].h >= self.crop_size[1] /\ features[k].w >= self.crop_size[2]})

\* C2: the length of a constructed data set is the number of examples read
\* whose image has height >= cropH and width >= cropW, whatever calls follow;
\* len() returns it and the constructor printed it.
C2_FilterLength ==
  self.built =>
    /\ Len(self.features) = KeptCount
    /\ self.printed = KeptCount
    /\ (result.op = "len" => result.kind = "ok" /\ result.value = KeptCount)

\* A split of two examples of which one was dropped, and len() was called.
C2_Witness ==
  /\ self.built
  /\ Len(features) = 2 /\ Len(self.features) = 1
  /\ result.op = "len" /\ result.value = 1

\* C3: once the loop over VOC_COLORMAP has run, the table holds i at the key
\* (r * 256 + g) * 256 + b of palette entry i, for each of the 21 entries, and
\* the 21 keys are pairwise distinct.
C3_TableCorrect ==
  TableBuilt =>
    /\ \A n \in 1 .. Len(VOC_COLORMAP) :
         GetItem(colormap2label, ClaimKey(VOC_COLORMAP[n])) = n - 1
    /\ \A m, n \in 1 .. Len(VOC_COLORMAP) :
         m # n => ClaimKey(VOC_COLORMAP[m]) # ClaimKey(VOC_COLORMAP[n])
    /\ Len(VOC_COLORMAP) = 21

\* The loop has finished and the last entry is in the table.
C3_Witness ==
  /\ TableBuilt
  /\ Cardinality(DOMAIN colormap2label.at) = 21
  /\ GetItem(colormap2label, ClaimKey(<<0, 64, 128>>)) = 20

\* C4: voc_label_indices maps a label image to an H x W map that holds, at
\* every pixel of a palette colour, the class of that colour; the index it
\* computes for the pixel is r * 256^2 + g * 256 + b, inside the table.
C4_DecodePalette ==
  result.op = "voc_label_indices" =>
    /\ result.Y.h = labels[1].h /\ result.Y.w = labels[1].w
    /\ DOMAIN result.Y.idx = Grid(labels[1].h, labels[1].w)
    /\ \A p \in DOMAIN labels[1].pix :
         /\ PixelIndex(labels[1].pix[p].rgb) = ClaimKey(labels[1].pix[p].rgb)
         /\ PixelIndex(labels[1].pix[p].rgb) \in 0 .. TableSize - 1
         /\ labels[1].pix[p].rgb \in PaletteColours =>
              result.Y.idx[p] = ClassOf(labels[1].pix[p].rgb)

\* A label of palette colours only, with class 20 among them, was decoded.
C4_Witness ==
  /\ result.op = "voc_label_indices"
  /\ \A p \in DOMAIN labels[1].pix : labels[1].pix[p].rgb \in PaletteColours
  /\ \E p, q \in DOMAIN labels[1].pix : result.Y.idx[p] = 20 /\ result.Y.idx[q] = 19

\* C5 as stated: every get(idx) with 0 <= idx < length returns a feature of
\* shape (3, cropH, cropW) and a label map of shape (cropH, cropW).
C5_ShapeAlways ==
  (result.op = "getitem" /\ 0 <= result.idx /\ result.idx < Len(self.features)) =>
    /\ result.kind = "ok"
    /\ result.X.shape = <<3, self.crop_size[1], self.crop_size[2]>>
    /\ result.Y.h = self.crop_size[1] /\ result.Y.w = self.crop_size[2]

\* C6 as stated: get(idx) with idx outside [0, length) fails with an index
\* error and returns no pair.
C6_OutsideFails ==
  (result.op = "getitem" /\ (result.idx < 0 \/ result.idx >= Len(self.features))) =>
    /\ result.kind = "IndexError"
    /\ result.X = NoTensor /\ result.Y = NoMap

\* C6 amended: get(idx) with idx >= length or idx < -length fails with an
\* index error and returns no pair.
C6_BeyondFails ==
  (result.op = "getitem"
     /\ (result.idx < -Len(self.features) \/ result.idx >= Len(self.features))) =>
    /\ result.kind = "IndexError"
    /\ result.X = NoTensor /\ result.Y = NoMap

\* get was called one past the end, and one before the start, of a data set
\* that holds examples.
C6_Witness ==
  /\ result.op = "getitem"
  /\ Len(self.features) >= 1
  /\ result.idx = Len(self.features) \/ result.idx = -Len(self.features) - 1
  /\ result.kind = "IndexError"

\* C7 as stated: voc_rand_crop on a feature and a label that differ in
\* height or width fails and returns no pair of crops.
C7_MismatchFails ==
  (result.op = "voc_rand_crop"
     /\ (features[1].h # labels[1].h \/ features[1].w # labels[1].w)) =>
    result.kind # "ok"

\* C8: a pixel whose colour is not a palette colour decodes to 0 without an
\* error, and the table holds 0 at every key that is not a palette key: only
\* palette keys were assigned, on a table of zeros.
C8_DefaultClass ==
  /\ i >= 0 =>
       /\ colormap2label.fill = 0
       /\ \A k \in DOMAIN colormap2label.at : \E c \in PaletteColours : k = ClaimKey(c)
       /\ \A n \in 1 .. Len(OtherColours) : GetItem(colormap2label, ClaimKey(OtherColours[n])) = 0
  /\ result.op = "voc_label_indices" =>
       /\ result.kind = "ok" /\ result.Y.ok
       /\ \A p \in DOMAIN labels[1].pix :
            labels[1].pix[p].rgb \notin PaletteColours =>
              result.Y.idx[p] = 0 /\ result.Y.idx[p] = ClassOf(<<0, 0, 0>>)

\* A label with a pixel that is no palette colour next to one that is not
\* background was decoded.
C8_Witness ==
  /\ result.op = "voc_label_indices"
  /\ \E p, q \in DOMAIN labels[1].pix :
       /\ labels[1].pix[p].rgb \notin PaletteColours
       /\ result.Y.idx[p] = 0
       /\ result.Y.idx[q] > 0

\* The label file get(idx) crops has the size of the feature file.
ServedSameSize ==
  /\ list_getitem(self.labels, result.idx).ok
  /\ list_getitem(self.labels, result.idx).item.h = Served.h
  /\ list_getitem(self.labels, result.idx).item.w = Served.w

\* C9: whenever get(idx) crops, the rectangle drawn has the crop size and
\* lies inside the feature image it is drawn for (and so inside a label of
\* that size), and no image the filter retained is smaller than the crop in
\* either axis.
C9_RectInside ==
  /\ self.built =>
       /\ \A k \in 1 .. Len(self.features) :
            self.features[k].h >= self.crop_size[1] /\ self.features[k].w >= self.crop_size[2]
       /\ \A k \in 1 .. Len(self.labels) :
            self.labels[k].h >= self.crop_size[1] /\ self.labels[k].w >= self.crop_size[2]
  /\ (result.op = "getitem" /\ result.rect # <<>>) =>
       /\ result.rect[3] = self.crop_size[2] /\ result.rect[4] = self.crop_size[1]
       /\ 0 <= result.rect[1] /\ result.rect[1] <= Served.w - self.crop_size[2]
       /\ 0 <= result.rect[2] /\ result.rect[2] <= Served.h - self.crop_size[1]
       /\ result.feature.ok
       /\ result.feature.h = self.crop_size[1] /\ result.feature.w = self.crop_size[2]
       /\ ServedSameSize =>
            /\ result.kind = "ok"
            /\ result.label.h = self.crop_size[1] /\ result.label.w = self.crop_size[2]

\* get cropped an image that is not square with a crop that is not square,
\* at the largest offset.
C9_Witness ==
  /\ result.op = "getitem" /\ result.kind = "ok"
  /\ self.crop_size[1] # self.crop_size[2]
  /\ Served.h # Served.w
  /\ result.rect[1] = Served.w - self.crop_size[2]
  /\ result.rect[2] = Served.h - self.crop_size[1]

\* C10 as stated: after construction the retained feature and label lists
\* have one length and features[idx], labels[idx] come from one example.
C10_ListsAligned ==
  self.built =>
    /\ Len(self.features) = Len(self.labels)
    /\ \A k \in 1 .. Len(self.features) :
         k <= Len(self.labels) => ExampleOf(self.features[k]) = ExampleOf(self.labels[k])

====
